---- MODULE Spec2Model ----
(***************************************************************************)
(* Model of the proposal evaluation gateway (POST /api/evaluateDraft):     *)
(* the in-memory rate limiter, the periodic sweep, the client identifier   *)
(* and the request handler, as a state machine over a wall clock in        *)
(* milliseconds.  A handler runs atomically between its two await points   *)
(* (verifyNearAuth and requestEvaluation).                                 *)
(***************************************************************************)
EXTENDS Integers, Sequences, FiniteSets, TLC

\* ---------------------------------------------------------------- bounds
\* Number of rate-limit checks the environment causes in one window of a key.
MaxCalls == 7
\* Number of times the wall clock advances in one behaviour.
MaxTicks == 2
\* Number of client identities seen where the identities themselves vary.
MaxKeys == 2
\* Sweeps that run when the timer fires on schedule.
MaxSweeps == 17
\* Checks in one window of a key while the timer fires on schedule.
MaxChecks == 2

\* ------------------------------------------------------ program constants
RATE_LIMIT_WINDOW == 15 * 60 * 1000
RATE_LIMIT_MAX_REQUESTS == 5

\* ------------------------------------------------------------ JS values
\* A JavaScript value is a tagged record, so that typeof, truthiness and
\* presence are things the model computes.
Undefined == [t |-> "undefined"]
Null == [t |-> "null"]
Obj(o) == [t |-> "object", v |-> o]
Str(s) == [t |-> "string", v |-> s]
Num(n) == [t |-> "number", v |-> n]
Bool(b) == [t |-> "boolean", v |-> b]
Arr(a) == [t |-> "array", v |-> a]

\* typeof x === "string"
IsString(x) == x.t = "string"

\* ToBoolean(x): undefined, null, "", 0 and false are falsy.
Truthy(x) ==
  CASE x.t = "undefined" -> FALSE
    [] x.t = "null" -> FALSE
    [] x.t = "string" -> x.v # <<>>
    [] x.t = "number" -> x.v # 0
    [] x.t = "boolean" -> x.v
    [] OTHER -> TRUE

\* A string is its sequence of characters.
S_unknown == <<"u", "n", "k", "n", "o", "w", "n">>

IsSpace(c) == c \in {" ", "\t", "\n"}

\* String.prototype.split(",")[0]: the text before the first comma.
RECURSIVE FirstField(_)
FirstField(s) ==
  IF s = <<>> \/ Head(s) = "," THEN <<>>
  ELSE <<Head(s)>> \o FirstField(Tail(s))

RECURSIVE TrimStart(_)
TrimStart(s) ==
  IF s # <<>> /\ IsSpace(Head(s)) THEN TrimStart(Tail(s)) ELSE s

RECURSIVE TrimEnd(_)
TrimEnd(s) ==
  IF s # <<>> /\ IsSpace(s[Len(s)]) THEN TrimEnd(SubSeq(s, 1, Len(s) - 1)) ELSE s

\* String.prototype.trim()
Trim(s) == TrimEnd(TrimStart(s))

\* Number.prototype.toString() of an integer, as decimal digits.
DigitChar(d) == <<"0", "1", "2", "3", "4", "5", "6", "7", "8", "9">>[d + 1]

RECURSIVE NatToString(_)
NatToString(n) ==
  IF n < 10 THEN <<DigitChar(n)>>
  ELSE NatToString(n \div 10) \o <<DigitChar(n % 10)>>

NumToString(n) == IF n < 0 THEN <<"-">> \o NatToString(-n) ELSE NatToString(n)

\* parseInt(s) of a decimal string with an optional sign.
DigitVal(c) ==
  CASE c = "0" -> 0 [] c = "1" -> 1 [] c = "2" -> 2 [] c = "3" -> 3
    [] c = "4" -> 4 [] c = "5" -> 5 [] c = "6" -> 6 [] c = "7" -> 7
    [] c = "8" -> 8 [] c = "9" -> 9

RECURSIVE ParseNat(_)
ParseNat(s) ==
  IF Len(s) = 1 THEN DigitVal(s[1])
  ELSE 10 * ParseNat(SubSeq(s, 1, Len(s) - 1)) + DigitVal(s[Len(s)])

ParseInt(s) == IF Head(s) = "-" THEN 0 - ParseNat(Tail(s)) ELSE ParseNat(s)

\* Math.ceil(a / b) for b > 0 (\div rounds towards minus infinity).
CeilDiv(a, b) == 0 - ((0 - a) \div b)

\* ---------------------------------------------------------- rate limiter
\* rateLimitMap.set(key, rec)
MapSet(map, key, rec) ==
  [k \in DOMAIN map \cup {key} |-> IF k = key THEN rec ELSE map[k]]

\* checkRateLimit with the cap compared by > instead of >=.
checkRateLimit_OffByOne(map, key, t) ==
  IF key \notin DOMAIN map \/ t > map[key].resetTime
  THEN [map |-> MapSet(map, key, [count |-> 1, resetTime |-> t + RATE_LIMIT_WINDOW]),
        allowed |-> TRUE,
        remaining |-> RATE_LIMIT_MAX_REQUESTS - 1,
        resetTime |-> Undefined]
  ELSE IF map[key].count > RATE_LIMIT_MAX_REQUESTS
  THEN [map |-> map,
        allowed |-> FALSE,
        remaining |-> 0,
        resetTime |-> Num(map[key].resetTime)]
  ELSE [map |-> [map EXCEPT ![key].count = @ + 1],
        allowed |-> TRUE,
        remaining |-> RATE_LIMIT_MAX_REQUESTS - (map[key].count + 1),
        resetTime |-> Undefined]

\* checkRateLimit re-arming an elapsed window without resetting its count.
checkRateLimit_KeepCount(map, key, t) ==
  IF key \notin DOMAIN map
  THEN [map |-> MapSet(map, key, [count |-> 1, resetTime |-> t + RATE_LIMIT_WINDOW]),
        allowed |-> TRUE,
        remaining |-> RATE_LIMIT_MAX_REQUESTS - 1,
        resetTime |-> Undefined]
  ELSE LET rec == IF t > map[key].resetTime
                  THEN [map[key] EXCEPT !.resetTime = t + RATE_LIMIT_WINDOW]
                  ELSE map[key]
       IN IF rec.count >= RATE_LIMIT_MAX_REQUESTS
          THEN [map |-> MapSet(map, key, rec),
                allowed |-> FALSE,
                remaining |-> 0,
                resetTime |-> Num(rec.resetTime)]
          ELSE [map |-> MapSet(map, key, [rec EXCEPT !.count = @ + 1]),
                allowed |-> TRUE,
                remaining |-> RATE_LIMIT_MAX_REQUESTS - (rec.count + 1),
                resetTime |-> Undefined]

\* checkRateLimit counting the requests it denies as well.
checkRateLimit_CountDenied(map, key, t) ==
  IF key \notin DOMAIN map \/ t > map[key].resetTime
  THEN [map |-> MapSet(map, key, [count |-> 1, resetTime |-> t + RATE_LIMIT_WINDOW]),
        allowed |-> TRUE,
        remaining |-> RATE_LIMIT_MAX_REQUESTS - 1,
        resetTime |-> Undefined]
  ELSE IF map[key].count >= RATE_LIMIT_MAX_REQUESTS
  THEN [map |-> [map EXCEPT ![key].count = @ + 1],
        allowed |-> FALSE,
        remaining |-> 0,
        resetTime |-> Num(map[key].resetTime)]
  ELSE [map |-> [map EXCEPT ![key].count = @ + 1],
        allowed |-> TRUE,
        remaining |-> RATE_LIMIT_MAX_REQUESTS - (map[key].count + 1),
        resetTime |-> Undefined]

\* checkRateLimit denying while any identity has used up its window.
checkRateLimit_SharedQuota(map, key, t) ==
  IF key \notin DOMAIN map \/ t > map[key].resetTime
  THEN [map |-> MapSet(map, key, [count |-> 1, resetTime |-> t + RATE_LIMIT_WINDOW]),
        allowed |-> TRUE,
        remaining |-> RATE_LIMIT_MAX_REQUESTS - 1,
        resetTime |-> Undefined]
  ELSE IF \E j \in DOMAIN map : map[j].count >= RATE_LIMIT_MAX_REQUESTS
  THEN [map |-> map,
        allowed |-> FALSE,
        remaining |-> 0,
        resetTime |-> Num(map[key].resetTime)]
  ELSE [map |-> [map EXCEPT ![key].count = @ + 1],
        allowed |-> TRUE,
        remaining |-> RATE_LIMIT_MAX_REQUESTS - (map[key].count + 1),
        resetTime |-> Undefined]

\* checkRateLimit starting the window over when it denies.
checkRateLimit_ExtendOnDeny(map, key, t) ==
  IF key \notin DOMAIN map \/ t > map[key].resetTime
  THEN [map |-> MapSet(map, key, [count |-> 1, resetTime |-> t + RATE_LIMIT_WINDOW]),
        allowed |-> TRUE,
        remaining |-> RATE_LIMIT_MAX_REQUESTS - 1,
        resetTime |-> Undefined]
  ELSE IF map[key].count >= RATE_LIMIT_MAX_REQUESTS
  THEN [map |-> [map EXCEPT ![key].resetTime = t + RATE_LIMIT_WINDOW],
        allowed |-> FALSE,
        remaining |-> 0,
        resetTime |-> Num(t + RATE_LIMIT_WINDOW)]
  ELSE [map |-> [map EXCEPT ![key].count = @ + 1],
        allowed |-> TRUE,
        remaining |-> RATE_LIMIT_MAX_REQUESTS - (map[key].count + 1),
        resetTime |-> Undefined]

\* checkRateLimit clearing the count of an identity it denies.
checkRateLimit_ForgetOnDeny(map, key, t) ==
  IF key \notin DOMAIN map \/ t > map[key].resetTime
  THEN [map |-> MapSet(map, key, [count |-> 1, resetTime |-> t + RATE_LIMIT_WINDOW]),
        allowed |-> TRUE,
        remaining |-> RATE_LIMIT_MAX_REQUESTS - 1,
        resetTime |-> Undefined]
  ELSE IF map[key].count >= RATE_LIMIT_MAX_REQUESTS
  THEN [map |-> [map EXCEPT ![key].count = 0],
        allowed |-> FALSE,
        remaining |-> 0,
        resetTime |-> Num(map[key].resetTime)]
  ELSE [map |-> [map EXCEPT ![key].count = @ + 1],
        allowed |-> TRUE,
        remaining |-> RATE_LIMIT_MAX_REQUESTS - (map[key].count + 1),
        resetTime |-> Undefined]

\* checkRateLimit incrementing a copy of the record: the count is never stored.
checkRateLimit_LostUpdate(map, key, t) ==
  IF key \notin DOMAIN map \/ t > map[key].resetTime
  THEN [map |-> MapSet(map, key, [count |-> 1, resetTime |-> t + RATE_LIMIT_WINDOW]),
        allowed |-> TRUE,
        remaining |-> RATE_LIMIT_MAX_REQUESTS - 1,
        resetTime |-> Undefined]
  ELSE IF map[key].count >= RATE_LIMIT_MAX_REQUESTS
  THEN [map |-> map,
        allowed |-> FALSE,
        remaining |-> 0,
        resetTime |-> Num(map[key].resetTime)]
  ELSE [map |-> map,
        allowed |-> TRUE,
        remaining |-> RATE_LIMIT_MAX_REQUESTS - (map[key].count + 1),
        resetTime |-> Undefined]

\* checkRateLimit(key) at Date.now() = t: the map afterwards and the result.
checkRateLimit(map, key, t) ==
  IF key \notin DOMAIN map \/ t > map[key].resetTime
  THEN [map |-> MapSet(map, key, [count |-> 1, resetTime |-> t + RATE_LIMIT_WINDOW]),
        allowed |-> TRUE,
        remaining |-> RATE_LIMIT_MAX_REQUESTS - 1,
        resetTime |-> Undefined]
  ELSE IF map[key].count >= RATE_LIMIT_MAX_REQUESTS
  THEN [map |-> map,
        allowed |-> FALSE,
        remaining |-> 0,
        resetTime |-> Num(map[key].resetTime)]
  ELSE [map |-> [map EXCEPT ![key].count = @ + 1],
        allowed |-> TRUE,
        remaining |-> RATE_LIMIT_MAX_REQUESTS - (map[key].count + 1),
        resetTime |-> Undefined]

\* The sweep keeping a record for a second window after its own.
SweepMap_Lenient(map, t) ==
  [k \in {x \in DOMAIN map : ~(t > map[x].resetTime + RATE_LIMIT_WINDOW)} |-> map[k]]

\* The sweep deleting a record as soon as the clock reaches its resetTime.
SweepMap_AtResetTime(map, t) ==
  [k \in {x \in DOMAIN map : ~(t >= map[x].resetTime)} |-> map[k]]

\* The setInterval callback: the map after the sweep at time t.
SweepMap(map, t) ==
  [k \in {x \in DOMAIN map : ~(t > map[x].resetTime)} |-> map[k]]

\* getClientIdentifier trusting x-real-ip before x-forwarded-for.
getClientIdentifier_RealIpFirst(forwarded, realIp, remoteAddress) ==
  IF IsString(realIp) THEN realIp.v
  ELSE IF IsString(forwarded) THEN Trim(FirstField(forwarded.v))
  ELSE IF Truthy(remoteAddress) THEN remoteAddress.v
  ELSE S_unknown

\* getClientIdentifier(req), from the two headers and the socket address.
getClientIdentifier(forwarded, realIp, remoteAddress) ==
  IF IsString(forwarded) THEN Trim(FirstField(forwarded.v))
  ELSE IF IsString(realIp) THEN realIp.v
  ELSE IF Truthy(remoteAddress) THEN remoteAddress.v
  ELSE S_unknown

\* ------------------------------------------------------------ evaluation
\* QUALITY_CRITERIA and ATTENTION_CRITERIA: the keys of an Evaluation.
QUALITY_CRITERIA ==
  <<"complete", "legible", "consistent", "compliant", "justified", "measurable">>
ATTENTION_CRITERIA == <<"relevant", "material">>

QualityKeys == {QUALITY_CRITERIA[i] : i \in DOMAIN QUALITY_CRITERIA}
AttentionKeys == {ATTENTION_CRITERIA[i] : i \in DOMAIN ATTENTION_CRITERIA}
Scores == {"high", "medium", "low"}

\* A score is a rational number, kept as numerator and denominator.
Rat(n, d) == [num |-> n, den |-> d]
RatEq(a, b) == a.num * b.den = b.num * a.den

\* buildScreeningPrompt(title, content): the static rubric text followed by
\* the title and the content, interpolated verbatim.
buildScreeningPrompt(title, content) ==
  <<"#rubric", "\n\nTitle: ">> \o title \o <<"\n\nContent: ">> \o content

\* The JSON document the evaluation service is asked for: one entry per
\* criterion and the three aggregates the service computes itself.
UpstreamDoc(flags, rel, mat, qs, op) ==
  [k \in QualityKeys \cup AttentionKeys \cup {"qualityScore", "attentionScore", "overallPass", "summary"} |->
     IF k \in QualityKeys THEN [pass |-> Bool(flags[k]), reason |-> Str(<<"r">>)]
     ELSE IF k = "relevant" THEN [score |-> Str(rel), reason |-> Str(<<"r">>)]
     ELSE IF k = "material" THEN [score |-> Str(mat), reason |-> Str(<<"r">>)]
     ELSE IF k = "qualityScore" THEN Num(qs)
     ELSE IF k = "attentionScore" THEN Num(Rat(1, 2))
     ELSE IF k = "overallPass" THEN Bool(op)
     ELSE Str(<<"s">>)]

\* The document without one of its fields.
Without(doc, field) == [k \in DOMAIN doc \ {field} |-> doc[k]]

\* Schema validation of the service's document: every criterion present
\* and of the right type.
ValidDoc(doc) ==
  /\ \A k \in QualityKeys : k \in DOMAIN doc /\ doc[k].pass.t = "boolean"
  /\ \A k \in AttentionKeys :
       k \in DOMAIN doc /\ doc[k].score.t = "string" /\ doc[k].score.v \in Scores
  /\ "summary" \in DOMAIN doc /\ doc["summary"].t = "string"

Passes(doc, k) == k \in DOMAIN doc /\ doc[k].pass = Bool(TRUE)

PassCount(doc) == Cardinality({k \in QualityKeys : Passes(doc, k)})

\* high = 1, medium = 0.5, low = 0, in halves.
ScoreHalves(s) == IF s = "high" THEN 2 ELSE IF s = "medium" THEN 1 ELSE 0

\* ScreeningBadge: getCriterionResult(key, "attention") on an Evaluation.
getCriterionResult(evaluation, key) ==
  [pass |-> evaluation[key].score = "high",
   reason |-> evaluation[key].reason,
   attentionScore |-> evaluation[key].score]

\* The badge counting only the criteria scored high.
attentionPoints_HighOnly(evaluation) ==
  LET pts(key) == IF getCriterionResult(evaluation, key).attentionScore = "high" THEN 2 ELSE 0
      sum[i \in 0..Len(ATTENTION_CRITERIA)] ==
        IF i = 0 THEN 0 ELSE sum[i - 1] + pts(ATTENTION_CRITERIA[i])
  IN sum[Len(ATTENTION_CRITERIA)]

\* ScreeningBadge: attentionPoints, the reduce over ATTENTION_CRITERIA.
attentionPoints(evaluation) ==
  LET pts(key) ==
        LET result == getCriterionResult(evaluation, key) IN
        IF result.attentionScore = "" THEN 0
        ELSE IF result.attentionScore = "high" THEN 2
        ELSE IF result.attentionScore = "medium" THEN 1
        ELSE 0
      sum[i \in 0..Len(ATTENTION_CRITERIA)] ==
        IF i = 0 THEN 0 ELSE sum[i - 1] + pts(ATTENTION_CRITERIA[i])
  IN sum[Len(ATTENTION_CRITERIA)]

\* The aggregates as the service reported them.
TrustedAggregates(doc) ==
  [qualityScore |-> doc["qualityScore"].v,
   attentionScore |-> doc["attentionScore"].v,
   overallPass |-> doc["overallPass"].v]

\* The aggregates recomputed from the per-criterion fields.
RecomputeAggregates(doc) ==
  [qualityScore |-> Rat(PassCount(doc), Len(QUALITY_CRITERIA)),
   attentionScore |->
     Rat(ScoreHalves(doc["relevant"].score.v) + ScoreHalves(doc["material"].score.v),
         2 * Len(ATTENTION_CRITERIA)),
   overallPass |-> \A k \in QualityKeys : Passes(doc, k)]

\* The Evaluation built from a validated document and its aggregates.
EvaluationOf(doc, agg) ==
  [k \in QualityKeys \cup AttentionKeys \cup {"qualityScore", "attentionScore", "overallPass", "summary"} |->
     IF k = "qualityScore" THEN agg.qualityScore
     ELSE IF k = "attentionScore" THEN agg.attentionScore
     ELSE IF k = "overallPass" THEN agg.overallPass
     ELSE IF k = "summary" THEN doc[k].v
     ELSE IF k \in QualityKeys THEN [pass |-> doc[k].pass.v, reason |-> doc[k].reason.v]
     ELSE [score |-> doc[k].score.v, reason |-> doc[k].reason.v]]

BuildEvaluation(doc) == EvaluationOf(doc, RecomputeAggregates(doc))

\* What the evaluation service does with one call: it answers with a JSON
\* document, with something that is not JSON, with a non-2xx status, or not
\* at all before the timeout.
\* requestEvaluation(title, content), given the service's answer.
requestEvaluation(answer) ==
  IF answer.kind = "json" /\ ValidDoc(answer.doc)
  THEN [ok |-> TRUE, evaluation |-> BuildEvaluation(answer.doc)]
  ELSE [ok |-> FALSE,
        error |-> [name |-> "EvaluationError",
                   subtype |-> IF answer.kind = "json" THEN "malformed-response"
                               ELSE IF answer.kind = "not_json" THEN "malformed-response"
                               ELSE IF answer.kind = "timeout" THEN "timeout"
                               ELSE "upstream-status"]]

\* ------------------------------------------------------------- sanitizer
MaxTitleLength == 3
MaxContentLength == 4

\* Collapse runs of blanks into one blank.
RECURSIVE Collapse(_)
Collapse(s) ==
  IF Len(s) < 2 THEN s
  ELSE IF s[1] = " " /\ s[2] = " " THEN Collapse(Tail(s))
  ELSE <<Head(s)>> \o Collapse(Tail(s))

Normalize(s) == Collapse(Trim(s))

FieldError(x, maxLen) ==
  IF x.t = "undefined" THEN "missing"
  ELSE IF x.t # "string" THEN "not a string"
  ELSE IF Trim(x.v) = <<>> THEN "empty"
  ELSE IF Len(Normalize(x.v)) > maxLen THEN "too long"
  ELSE "none"

\* sanitizeProposalInput(title, content)
sanitizeProposalInput(title, content) ==
  IF FieldError(title, MaxTitleLength) # "none"
  THEN [ok |-> FALSE,
        error |-> [name |-> "ValidationError", field |-> "title",
                   why |-> FieldError(title, MaxTitleLength)]]
  ELSE IF FieldError(content, MaxContentLength) # "none"
  THEN [ok |-> FALSE,
        error |-> [name |-> "ValidationError", field |-> "content",
                   why |-> FieldError(content, MaxContentLength)]]
  ELSE [ok |-> TRUE, title |-> Normalize(title.v), content |-> Normalize(content.v)]

\* respondWithScreeningError(res, error, fallbackMessage): the status and
\* the JSON body of the error response (st is the status the library picks
\* for an upstream failure, 500 or 502).
respondWithScreeningError(error, st) ==
  IF error.name = "ValidationError"
  THEN [status |-> 400, body |-> [error |-> <<error.field, error.why>>]]
  ELSE [status |-> st, body |-> [error |-> <<"Failed to evaluate proposal">>]]

\* --------------------------------------------------------------- inputs
\* What the environment may send and answer.
Handlers == {"h1", "h2"}
Methods == {"POST", "GET"}
AuthHeaders == {Undefined, Str(<<"Bearer t">>)}
Accounts == {Str(<<"alice.near">>)}

O_forwarded ==
  [forwarded |-> Str(<<" ", "a", ",", "b">>), realIp |-> Str(<<"b">>),
   remoteAddress |-> Str(<<"c">>)]
O_realIp ==
  [forwarded |-> Arr(<<"b", "a">>), realIp |-> Str(<<"a">>),
   remoteAddress |-> Str(<<"c">>)]
O_none ==
  [forwarded |-> Undefined, realIp |-> Undefined, remoteAddress |-> Undefined]
Origins == {O_forwarded}

\* Every shape the two headers and the socket address arrive in.
AllOrigins ==
  [forwarded : {Undefined, Arr(<<"a", "b">>), Str(<<" ", "a", " ", ",", "b">>),
                Str(<<"a">>), Str(<<>>)},
   realIp : {Undefined, Arr(<<"b">>), Str(<<"b">>)},
   remoteAddress : {Undefined, Str(<<"c">>)}]

B_short == [title |-> Str(<<"T">>), content |-> Str(<<" ", "c", " ", " ", "d">>)]
B_blank == [title |-> Str(<<"T">>), content |-> Str(<<" ", " ">>)]
B_untitled == [title |-> Undefined, content |-> Str(<<"c">>)]
B_long == [title |-> Str(<<"T">>), content |-> Str(<<"c", "c", "c", "c", "c">>)]
Bodies == {B_short, B_blank}

AllFlags == [QualityKeys -> BOOLEAN]
AllPass == [k \in QualityKeys |-> TRUE]
TwoFail == [k \in QualityKeys |-> k \notin {"consistent", "justified"}]

D_pass == UpstreamDoc(AllPass, "high", "medium", Rat(1, 1), TRUE)
D_lying == UpstreamDoc(TwoFail, "high", "low", Rat(1, 1), TRUE)
D_badType ==
  [D_pass EXCEPT !["legible"] = [pass |-> Str(<<"yes">>), reason |-> Str(<<"r">>)]]

Json(doc) == [kind |-> "json", doc |-> doc]
Failure(kind) == [kind |-> kind, doc |-> <<>>]
NoAnswer == Failure("none")

\* The answers drawn while the gateway as a whole is explored.
Answers ==
  {Json(D_lying), Json(Without(D_pass, "measurable")), Failure("timeout")}

\* How verifyNearAuth settles: it resolves with an account or it throws.
VerifyOutcomes ==
  {[settled |-> TRUE, ok |-> TRUE, accountId |-> a] : a \in Accounts}
    \cup {[settled |-> TRUE, ok |-> FALSE, accountId |-> Undefined]}
NotVerified == [settled |-> FALSE, ok |-> FALSE, accountId |-> Undefined]

\* How far the clock moves in one step, and how far it may move between the
\* two Date.now() reads of one handler run.
Deltas == {1, RATE_LIMIT_WINDOW}
ClockSkew == {0, 1}
SWEEP_INTERVAL == 60 * 1000

\* ------------------------------------------------------ New Proposal page
\* useState: title, proposal, loading, result, error, remainingEvaluations.
\* pc is where evaluateProposal stands and completed whether a run has ended.
PageInit ==
  [title |-> <<>>, proposal |-> <<>>, loading |-> FALSE, result |-> Null,
   error |-> <<>>, remainingEvaluations |-> Null, pc |-> "idle", completed |-> FALSE]

\* What the user types into the two fields.
Typed == {<<>>, <<" ">>, <<"T">>}

\* What fetch("/api/evaluateDraft") settles with: a response of the gateway
\* with its X-RateLimit-Remaining header and JSON body, or a rejection.
Response(st, remaining, body) ==
  [kind |-> "response", status |-> st, remaining |-> remaining, body |-> body]
Rejection(message) == [kind |-> "reject", message |-> message]

PageResponses ==
  {Response(200, h, [evaluation |-> Obj(BuildEvaluation(d))]) :
     h \in {Null, Str(<<"4">>), Str(<<"0">>)}, d \in {D_pass, D_lying}}
    \cup {Response(429, Str(<<"0">>),
                   [error |-> <<"Rate limit exceeded">>, retryAfter |-> Num(n)]) :
            n \in {0, 61, 900}}
    \cup {Response(400, Str(<<"3">>), [error |-> <<"content", "empty">>]),
          Response(500, Null, [error |-> <<"Failed to evaluate proposal">>]),
          Response(502, Str(<<"2">>), [error |-> <<>>]),
          Rejection(<<"Failed to fetch">>), Rejection(<<>>)}

\* Lines 48-60: the Error thrown for a response that is not ok.
ErrorMessage(resp) ==
  IF resp.status = 429
  THEN <<"Rate limit exceeded. Please try again in ",
         CeilDiv(IF Truthy(resp.body.retryAfter) THEN resp.body.retryAfter.v ELSE 900, 60),
         " minutes or connect your NEAR wallet for unlimited evaluations.">>
  ELSE IF resp.body.error # <<>> THEN resp.body.error
  ELSE <<"API request failed: ", resp.status>>

\* Lines 64-66: the catch branch.
Caught(p, message) ==
  [p EXCEPT !.error = IF message # <<>> THEN message
                      ELSE <<"Failed to evaluate proposal">>]

\* Lines 42-46: the remaining quota read from the header.
RemainingRead(p, resp) ==
  IF Truthy(resp.remaining)
  THEN [p EXCEPT !.remainingEvaluations = Num(ParseInt(resp.remaining.v))]
  ELSE p

\* Lines 33-66: the try block and its catch, given what fetch settled with.
Tried(p, resp) ==
  IF resp.kind = "reject" THEN Caught(p, resp.message)
  ELSE IF resp.status # 200 THEN Caught(RemainingRead(p, resp), ErrorMessage(resp))
  ELSE [RemainingRead(p, resp) EXCEPT !.result = resp.body.evaluation]

\* Lines 67-69: finally.
Finally(p) == [p EXCEPT !.loading = FALSE, !.pc = "idle", !.completed = TRUE]

\* Lines 24-31: evaluateProposal up to its fetch.
Begun(p) ==
  IF Trim(p.title) = <<>> \/ Trim(p.proposal) = <<>>
  THEN [p EXCEPT !.error = <<"Please enter both title and proposal">>,
                 !.completed = TRUE]
  ELSE [p EXCEPT !.loading = TRUE, !.error = <<>>, !.result = Null, !.pc = "fetch"]

\* ---------------------------------------------------------------- state
VARIABLES
  now,           \* Date.now(), in milliseconds
  ticks,         \* how many times the clock has advanced
  lastSweep,     \* when the setInterval callback last ran (or was armed)
  rateLimitMap,  \* key -> [count, resetTime]
  req,           \* the request each handler is serving and its response
  dispatched,    \* the prompts the evaluation service has received
  win,           \* observer: per key, when its window opened and the calls since
  admitted,      \* observer: per key, a log of its admitted requests: their
                 \* times over the last W ms, or the statuses they ended in
                 \* within the open window
  page           \* the New Proposal page: its React state and the run in flight

vars == <<now, ticks, lastSweep, rateLimitMap, req, dispatched, win, admitted, page>>

EmptyMap == [k \in {} |-> 0]

IdleReq ==
  [pc |-> "idle", method |-> "", authHeader |-> Undefined, origin |-> O_none,
   body |-> B_short,
   isAuthenticated |-> FALSE, accountId |-> Undefined,
   verifyCalls |-> 0, outcome |-> NotVerified,
   rlChecked |-> FALSE, clientId |-> <<>>,
   rl |-> [allowed |-> TRUE, remaining |-> 0, resetTime |-> Undefined],
   nth |-> 0, opened |-> 0, retryAt |-> 0,
   sanitizeCalls |-> 0, evalCalls |-> 0, prompt |-> <<>>, seenBefore |-> FALSE,
   answer |-> NoAnswer,
   headers |-> [remaining |-> Undefined, limit |-> Undefined, retryAfter |-> Undefined],
   status |-> 0, resBody |-> EmptyMap, responses |-> 0]

Init ==
  /\ now = 0
  /\ ticks = 0
  /\ lastSweep = 0
  /\ rateLimitMap = EmptyMap
  /\ req = [h \in Handlers |-> IdleReq]
  /\ dispatched = {}
  /\ win = EmptyMap
  /\ admitted = EmptyMap
  /\ page = PageInit

\* -------------------------------------------------------------- handler
\* res.status(st).json(body)
Respond(r, st, body) ==
  [r EXCEPT !.pc = "done", !.status = st, !.resBody = body, !.responses = @ + 1]

\* The 405 sent with the quota header already set.
MethodNotAllowed_AfterHeaders(r) ==
  Respond([r EXCEPT !.headers.limit = Str(NumToString(RATE_LIMIT_MAX_REQUESTS))],
          405, [error |-> <<"Method not allowed">>])

\* Lines 206-208.
MethodNotAllowed(r) == Respond(r, 405, [error |-> <<"Method not allowed">>])

\* The resolved account never stored.
AuthSucceeded_NoAccount(r, out) == [r EXCEPT !.isAuthenticated = TRUE]

\* Lines 217-219: verifyNearAuth resolved.
AuthSucceeded(r, out) ==
  [r EXCEPT !.isAuthenticated = TRUE, !.accountId = out.accountId]

\* isAuthenticated set although verification threw.
AuthFailed_TreatAsAuth(r) == [r EXCEPT !.isAuthenticated = TRUE]

\* Lines 220-226: verifyNearAuth threw; logged, nothing else.
AuthFailed(r) == r

\* Rate limiting skipped for every request that presents a credential.
RateLimitApplies_NoCredential(r) == ~Truthy(r.authHeader)

\* Every request rate limited, signed in or not.
RateLimitAlways(r) == TRUE

\* Line 230: rate limiting applies to anonymous users only.
RateLimitApplies(r) == ~r.isAuthenticated

\* Line 231.
ClientIdOf(r) ==
  getClientIdentifier(r.origin.forwarded, r.origin.realIp, r.origin.remoteAddress)

\* Line 232: the destructured result of the check.
Checked(r, clientId, rl) ==
  [r EXCEPT !.rlChecked = TRUE, !.clientId = clientId,
            !.rl = [allowed |-> rl.allowed, remaining |-> rl.remaining,
                    resetTime |-> rl.resetTime]]

\* Lines 235-236: the two headers.
QuotaHeaders(r) ==
  [r EXCEPT !.headers.remaining = Str(NumToString(r.rl.remaining)),
            !.headers.limit = Str(NumToString(RATE_LIMIT_MAX_REQUESTS))]

\* The two headers set only when the request is allowed.
RateLimitResult_HeadersIfAllowed(r, clientId, rl) ==
  [map |-> rl.map,
   r |-> IF rl.allowed THEN QuotaHeaders(Checked(r, clientId, rl))
         ELSE Checked(r, clientId, rl)]

\* Lines 232-236, given the result of the check.
RateLimitResult(r, clientId, rl) ==
  [map |-> rl.map, r |-> QuotaHeaders(Checked(r, clientId, rl))]

RateLimitFor(r, map, t, clientId) ==
  RateLimitResult(r, clientId, checkRateLimit(map, clientId, t))

\* The input validated first and a request failing it not counted.
RateLimitStage_ValidateFirst(r, map, t) ==
  IF sanitizeProposalInput(r.body.title, r.body.content).ok
  THEN RateLimitFor(r, map, t, ClientIdOf(r))
  ELSE [map |-> map, r |-> RateLimitFor(r, map, t, ClientIdOf(r)).r]

\* Lines 231-236: the check and the two headers.
RateLimitStage(r, map, t) == RateLimitFor(r, map, t, ClientIdOf(r))

\* The retry delay left in milliseconds.
RetryAfter_Millis(resetTime, t) ==
  IF Truthy(resetTime) THEN resetTime.v - t
  ELSE RATE_LIMIT_WINDOW \div 1000

\* Lines 239-241, with Date.now() = t.
RetryAfter(resetTime, t) ==
  IF Truthy(resetTime) THEN CeilDiv(resetTime.v - t, 1000)
  ELSE RATE_LIMIT_WINDOW \div 1000

\* Lines 242-249.
RateLimitedWith(r, t, retryAfter) ==
  Respond([r EXCEPT !.headers.retryAfter = Str(NumToString(retryAfter)), !.retryAt = t],
          429,
          [error |-> <<"Rate limit exceeded">>,
           message |-> <<RATE_LIMIT_MAX_REQUESTS, CeilDiv(retryAfter, 60)>>,
           retryAfter |-> retryAfter])

\* Lines 238-250: the 429 response.
RateLimitedResponse(r, t) == RateLimitedWith(r, t, RetryAfter(r.rl.resetTime, t))

\* JSON.stringify drops a key whose value is undefined.
OkBody(evaluation, accountId) ==
  IF accountId.t = "undefined" THEN [evaluation |-> evaluation]
  ELSE [evaluation |-> evaluation, authenticatedAs |-> accountId.v]

\* The validation error dropped and the evaluation requested all the same.
SanitizeFailed_Continue(r, e) == [r EXCEPT !.pc = "eval", !.evalCalls = @ + 1]

\* Lines 262-263.
SanitizeFailed(r, e) == Respond(r, e.status, e.body)

\* Lines 258-271, given what sanitizeProposalInput returned or threw.
Sanitized(r, san) ==
  IF ~san.ok
  THEN SanitizeFailed([r EXCEPT !.sanitizeCalls = @ + 1],
                      respondWithScreeningError(san.error, 500))
  ELSE [r EXCEPT !.sanitizeCalls = @ + 1, !.pc = "eval", !.evalCalls = @ + 1,
                 !.prompt = buildScreeningPrompt(san.title, san.content)]

\* Lines 253-271: sanitize, then call requestEvaluation and await it.
SanitizeStage(r) == Sanitized(r, sanitizeProposalInput(r.body.title, r.body.content))

\* The evaluation error caught and no response sent.
EvalFailed_NoResponse(r, e) == [r EXCEPT !.pc = "pending"]

\* Lines 289-291.
EvalFailed(r, e) == Respond(r, e.status, e.body)

\* A failed evaluation tried once more before responding.
EvalSettled_Retry(r, res, st) ==
  IF res.ok THEN Respond(r, 200, OkBody(res.evaluation, r.accountId))
  ELSE IF r.evalCalls < 2 THEN [r EXCEPT !.evalCalls = @ + 1]
  ELSE EvalFailed(r, respondWithScreeningError(res.error, st))

\* The catch branch answering 200 with whatever came back.
EvalSettled_NoCatch(r, res, st) ==
  IF res.ok THEN Respond(r, 200, OkBody(res.evaluation, r.accountId))
  ELSE Respond(r, 200, OkBody(r.answer.doc, r.accountId))

\* Lines 268-291, given what requestEvaluation returned or threw.
EvalSettled(r, res, st) ==
  IF res.ok THEN Respond(r, 200, OkBody(res.evaluation, r.accountId))
  ELSE EvalFailed(r, respondWithScreeningError(res.error, st))

\* Lines 268-291: requestEvaluation settled.
EvalStage(r, answer, st) ==
  EvalSettled([r EXCEPT !.answer = answer], requestEvaluation(answer), st)

\* Observer of a key: its window is opened by the first check and by the
\* first check after opening + W has passed; n counts the checks in it, adm
\* those it admitted and prev the checks of the window before; last429 is the
\* 429 sent to the key if its latest check was denied, prior429 the one that
\* the check at hand follows directly, shadow the record the key would have
\* if no sweep ever ran, and swept whether a sweep had deleted the key's
\* record when its latest check ran.
No429 == [some |-> FALSE, at |-> 0, retryAfter |-> 0]

WinFresh ==
  [opened |-> 0, n |-> 0, prev |-> 0, adm |-> 0, at |-> 0,
   last429 |-> No429, prior429 |-> No429,
   result |-> [allowed |-> TRUE, remaining |-> 0, resetTime |-> Undefined],
   shadowResult |-> [allowed |-> TRUE, remaining |-> 0, resetTime |-> Undefined],
   shadow |-> [count |-> 0, resetTime |-> 0], swept |-> FALSE]

WinOf(key) == IF key \in DOMAIN win THEN win[key] ELSE WinFresh

ShadowMap == [k \in DOMAIN win |-> win[k].shadow]

ResultOf(rl) ==
  [allowed |-> rl.allowed, remaining |-> rl.remaining, resetTime |-> rl.resetTime]

\* The admission times not older than t - W, with t added when admitted.
LogAdd(log, t, allowed) ==
  SelectSeq(log, LAMBDA x : x >= t - RATE_LIMIT_WINDOW) \o (IF allowed THEN <<t>> ELSE <<>>)

WinCount(old, t, fresh) ==
  IF fresh \/ t > old.opened + RATE_LIMIT_WINDOW
  THEN [old EXCEPT !.opened = t, !.n = 1, !.prev = old.n, !.adm = 0]
  ELSE [old EXCEPT !.n = @ + 1]

WinObserve(w, t, result, sh, key) ==
  [w EXCEPT !.adm = @ + (IF result.allowed THEN 1 ELSE 0),
            !.at = t,
            !.prior429 = w.last429,
            !.last429 = IF result.allowed THEN No429 ELSE w.last429,
            !.result = result,
            !.shadowResult = ResultOf(sh),
            !.shadow = sh.map[key],
            !.swept = key \in DOMAIN win /\ key \notin DOMAIN rateLimitMap]

WinNext(key, t, rl) ==
  WinObserve(WinCount(WinOf(key), t, key \notin DOMAIN win), t, ResultOf(rl),
             checkRateLimit(ShadowMap, key, t), key)

\* The handler's slot and the prompt it may have sent, written back.
Publish(h, r) ==
  /\ req' = [req EXCEPT ![h] = [r EXCEPT !.seenBefore = (r.pc = "eval" /\ r.prompt \in dispatched)]]
  /\ dispatched' = IF r.pc = "eval" THEN dispatched \cup {r.prompt} ELSE dispatched

\* The 429 leaves, and the observer notes when and with what delay.
Denied(h, r, w) ==
  /\ Publish(h, r)
  /\ win' = MapSet(win, r.clientId,
                   [w EXCEPT !.last429 = [some |-> TRUE, at |-> r.retryAt,
                                          retryAfter |-> r.resBody.retryAfter]])

\* Lines 238-271 for an anonymous request r whose check gave map; w is the
\* key's window.  The clock may move before line 240 reads it.
Limited(h, r, map, w) ==
  /\ w.n <= MaxCalls
  /\ rateLimitMap' = map
  /\ UNCHANGED lastSweep
  /\ IF r.rl.allowed
     THEN /\ \E r2 \in {SanitizeStage([r EXCEPT !.nth = w.n, !.opened = w.opened])} :
               Publish(h, r2)
          /\ win' = MapSet(win, r.clientId, w)
          /\ UNCHANGED <<now, ticks>>
     ELSE \E skew \in ClockSkew :
            /\ skew = 0 \/ ticks < MaxTicks
            /\ now' = now + skew
            /\ ticks' = ticks + skew
            /\ \E r2 \in {RateLimitedResponse([r EXCEPT !.nth = w.n, !.opened = w.opened],
                                              now + skew)} :
                 Denied(h, r2, w)

LimitedBy(h, stage) ==
  \E w \in {WinNext(stage.r.clientId, now, stage.r.rl)} :
    Limited(h, stage.r, stage.map, w)

\* Lines 229-271: what a handler does, without suspending, once the identity
\* is settled.
Proceed(h, r) ==
  IF RateLimitApplies(r)
  THEN \E stage \in {RateLimitStage(r, rateLimitMap, now)} : LimitedBy(h, stage)
  ELSE /\ \E r2 \in {SanitizeStage(r)} : Publish(h, r2)
       /\ UNCHANGED <<now, ticks, lastSweep, rateLimitMap, win>>

\* Lines 211-213.
Arrived(method, authHeader, origin, body) ==
  [IdleReq EXCEPT !.pc = "run", !.method = method, !.authHeader = authHeader,
                  !.origin = origin, !.body = body]

\* A request arrives and its handler runs up to its first await or response.
Start(h, method, authHeader, origin, body) ==
  /\ req[h].pc \in {"idle", "done"}
  /\ IF method # "POST"
     THEN /\ req' = [req EXCEPT ![h] = MethodNotAllowed(Arrived(method, authHeader, origin, body))]
          /\ UNCHANGED <<now, ticks, lastSweep, rateLimitMap, dispatched, win>>
     ELSE IF Truthy(authHeader)
     THEN /\ req' = [req EXCEPT ![h] = [Arrived(method, authHeader, origin, body)
                                          EXCEPT !.pc = "verify", !.verifyCalls = @ + 1]]
          /\ UNCHANGED <<now, ticks, lastSweep, rateLimitMap, dispatched, win>>
     ELSE \E r \in {Arrived(method, authHeader, origin, body)} : Proceed(h, r)

\* verifyNearAuth settles and the handler runs on.
VerifyReturn(h, out) ==
  /\ req[h].pc = "verify"
  /\ \E r \in {IF out.ok THEN AuthSucceeded([req[h] EXCEPT !.outcome = out], out)
                ELSE AuthFailed([req[h] EXCEPT !.outcome = out])} :
       Proceed(h, r)

\* requestEvaluation settles and the handler responds.
EvalReturn(h, answer, st) ==
  /\ req[h].pc = "eval"
  /\ st = 500 \/ ~requestEvaluation(answer).ok
  /\ req' = [req EXCEPT ![h] = EvalStage(req[h], answer, st)]
  /\ UNCHANGED <<now, ticks, lastSweep, rateLimitMap, dispatched, win>>

\* The setInterval callback, SWEEP_INTERVAL or more after it last ran.
Sweep ==
  /\ now >= lastSweep + SWEEP_INTERVAL
  /\ rateLimitMap' = SweepMap(rateLimitMap, now)
  /\ lastSweep' = now
  /\ UNCHANGED <<now, ticks, req, dispatched, win>>

\* Time passes.
Tick(d) ==
  /\ ticks < MaxTicks
  /\ now' = now + d
  /\ ticks' = ticks + 1
  /\ UNCHANGED <<lastSweep, rateLimitMap, req, dispatched, win>>

\* The gateway serving one request at a time.
Next ==
  \/ \E m \in Methods, a \in AuthHeaders, o \in Origins, b \in Bodies :
       Start("h1", m, a, o, b) /\ UNCHANGED <<admitted, page>>
  \/ \E out \in VerifyOutcomes : VerifyReturn("h1", out) /\ UNCHANGED <<admitted, page>>
  \/ \E answer \in Answers, st \in {500, 502} :
       EvalReturn("h1", answer, st) /\ UNCHANGED <<admitted, page>>
  \/ Sweep /\ UNCHANGED <<admitted, page>>
  \/ \E d \in Deltas : Tick(d) /\ UNCHANGED <<admitted, page>>

Spec == Init /\ [][Next]_vars

\* The gateway serving signed-in callers, with every document the evaluation
\* service can answer with.
ReportedScores == {Rat(0, 1), Rat(1, 2), Rat(67, 100), Rat(1, 1)}

AllDocs ==
  {UpstreamDoc(f, rel, mat, qs, op) :
     f \in AllFlags, rel \in Scores, mat \in Scores, qs \in ReportedScores, op \in BOOLEAN}

NextEval ==
  \/ \E a \in AuthHeaders \ {Undefined} :
       Start("h1", "POST", a, O_forwarded, B_short) /\ UNCHANGED <<admitted, page>>
  \/ \E out \in {o \in VerifyOutcomes : o.ok} :
       VerifyReturn("h1", out) /\ UNCHANGED <<admitted, page>>
  \/ \E d \in AllDocs : EvalReturn("h1", Json(d), 500) /\ UNCHANGED <<admitted, page>>

SpecEval == Init /\ [][NextEval]_vars

\* The gateway serving two requests of one origin at once: either handler
\* runs whenever the other is suspended at one of its two awaits.
NextConc ==
  \/ \E h \in Handlers, a \in AuthHeaders :
       Start(h, "POST", a, O_forwarded, B_short) /\ UNCHANGED <<admitted, page>>
  \/ \E h \in Handlers, out \in VerifyOutcomes :
       VerifyReturn(h, out) /\ UNCHANGED <<admitted, page>>
  \/ \E h \in Handlers : EvalReturn(h, Failure("timeout"), 500) /\ UNCHANGED <<admitted, page>>
  \/ Tick(RATE_LIMIT_WINDOW) /\ UNCHANGED <<admitted, page>>

SpecConc == Init /\ [][NextConc]_vars

\* The rate limiter under bursts of one anonymous origin: every request is a
\* POST the sanitizer rejects, and the observer keeps the admission times.
AdmittedOf(key) == IF key \in DOMAIN admitted THEN admitted[key] ELSE <<>>

BurstRequest ==
  /\ Start("h1", "POST", Undefined, O_forwarded, B_blank)
  /\ admitted' = MapSet(admitted, req'["h1"].clientId,
                        LogAdd(AdmittedOf(req'["h1"].clientId), now,
                               req'["h1"].rl.allowed))
  /\ UNCHANGED page

NextBurst ==
  \/ BurstRequest
  \/ Sweep /\ UNCHANGED <<admitted, page>>
  \/ \E d \in Deltas : Tick(d) /\ UNCHANGED <<admitted, page>>

SpecBurst == Init /\ [][NextBurst]_vars

\* The rate limiter with its timer firing on schedule: the clock never passes
\* the instant a sweep is due before that sweep has run.
SweepDue == lastSweep + SWEEP_INTERVAL

ScheduledRequest ==
  /\ Start("h1", "POST", Undefined, O_forwarded, B_blank)
  /\ now' <= SweepDue
  /\ \A k \in DOMAIN win' : win'[k].n <= MaxChecks
  /\ UNCHANGED <<admitted, page>>

ScheduledTick ==
  /\ now + 1 <= SweepDue
  /\ Tick(1)
  /\ UNCHANGED <<admitted, page>>

TickToSweep ==
  /\ now < SweepDue
  /\ SweepDue <= MaxSweeps * SWEEP_INTERVAL
  /\ now' = SweepDue
  /\ UNCHANGED <<ticks, lastSweep, rateLimitMap, req, dispatched, win, admitted, page>>

NextSweep ==
  \/ ScheduledRequest
  \/ ScheduledTick
  \/ TickToSweep
  \/ Sweep /\ UNCHANGED <<admitted, page>>

SpecSweep == Init /\ [][NextSweep]_vars

\* The rate limiter serving two anonymous origins of different identities:
\* one may use up its windows, the other makes a few checks in each of its own.
TwoOrigins == {O_forwarded, O_none}

NextTwo ==
  \/ \E o \in TwoOrigins :
       /\ Start("h1", "POST", Undefined, o, B_blank)
       /\ \A k \in DOMAIN win' \ {S_unknown} : win'[k].n <= MaxChecks
       /\ UNCHANGED <<admitted, page>>
  \/ Sweep /\ UNCHANGED <<admitted, page>>
  \/ Tick(RATE_LIMIT_WINDOW) /\ UNCHANGED <<admitted, page>>

SpecTwo == Init /\ [][NextTwo]_vars

\* The gateway serving anonymous requests of one origin within one window,
\* the observer logging the status each admitted request ended in.
OutcomeLog(k) == IF win'[k].n = 1 THEN <<>> ELSE AdmittedOf(k)

QuotaStart(b) ==
  /\ Start("h1", "POST", Undefined, O_forwarded, b)
  /\ \E r \in {req'["h1"]} :
       admitted' = MapSet(admitted, r.clientId,
                          IF r.pc = "done" /\ r.rl.allowed
                          THEN Append(OutcomeLog(r.clientId), r.status)
                          ELSE OutcomeLog(r.clientId))
  /\ UNCHANGED page

QuotaEvalReturn(answer, st) ==
  /\ EvalReturn("h1", answer, st)
  /\ \E r \in {req'["h1"]} :
       admitted' = MapSet(admitted, r.clientId, Append(AdmittedOf(r.clientId), r.status))
  /\ UNCHANGED page

QuotaAnswers == {Json(D_pass), Failure("timeout"), Failure("upstream-status")}

NextQuota ==
  \/ \E b \in Bodies : QuotaStart(b)
  \/ \E answer \in QuotaAnswers, st \in {500, 502} : QuotaEvalReturn(answer, st)
  \/ Tick(1) /\ UNCHANGED <<admitted, page>>

SpecQuota == Init /\ [][NextQuota]_vars

\* The New Proposal page: the user types, submits, and the fetch settles; one
\* run of evaluateProposal at a time.
GatewayVars == <<now, ticks, lastSweep, rateLimitMap, req, dispatched, win, admitted>>

SetTitle(t) ==
  /\ page' = [page EXCEPT !.title = t]
  /\ UNCHANGED GatewayVars

SetProposal(t) ==
  /\ page' = [page EXCEPT !.proposal = t]
  /\ UNCHANGED GatewayVars

Submit ==
  /\ page.pc = "idle"
  /\ page' = Begun(page)
  /\ UNCHANGED GatewayVars

FetchSettles(resp) ==
  /\ page.pc = "fetch"
  /\ page' = Finally(Tried(page, resp))
  /\ UNCHANGED GatewayVars

NextPage ==
  \/ \E t \in Typed : SetTitle(t)
  \/ \E t \in Typed : SetProposal(t)
  \/ Submit
  \/ \E resp \in PageResponses : FetchSettles(resp)

SpecPage == Init /\ [][NextPage]_vars

\* The gateway under the scheduling its two awaits rest on: verifyNearAuth
\* settles, and the evaluation call is cut off by its timeout when the
\* service does not answer.  The service itself is under no obligation.
VerifySettles ==
  \E out \in VerifyOutcomes : VerifyReturn("h1", out) /\ UNCHANGED <<admitted, page>>

EvalTimeout ==
  \E st \in {500, 502} : EvalReturn("h1", Failure("timeout"), st) /\ UNCHANGED <<admitted, page>>

ServiceAnswers ==
  \E answer \in {Json(D_pass), Json(D_badType), Failure("upstream-status")} :
    EvalReturn("h1", answer, 502) /\ UNCHANGED <<admitted, page>>

NextLive ==
  \/ \E a \in AuthHeaders, b \in Bodies :
       Start("h1", "POST", a, O_forwarded, b) /\ UNCHANGED <<admitted, page>>
  \/ VerifySettles
  \/ ServiceAnswers
  \/ EvalTimeout

SpecLive ==
  Init /\ [][NextLive]_vars /\ WF_vars(VerifySettles) /\ WF_vars(EvalTimeout)

\* The gateway seen from origins of every shape, each identity checked once.
IdentStart(a, o) ==
  /\ ClientIdOf([IdleReq EXCEPT !.origin = o]) \notin DOMAIN win
  /\ Cardinality(DOMAIN win) < MaxKeys
  /\ Start("h1", "POST", a, o, B_blank)
  /\ UNCHANGED <<admitted, page>>

NextIdent ==
  \/ \E a \in AuthHeaders, o \in AllOrigins : IdentStart(a, o)
  \/ VerifySettles

SpecIdent == Init /\ [][NextIdent]_vars

\* ------------------------------------------------------------ properties
\* The request passed the method check, the rate limiter and the sanitizer.
Passed(r) ==
  /\ r.method = "POST"
  /\ r.isAuthenticated \/ (r.rlChecked /\ r.nth <= 5)
  /\ sanitizeProposalInput(r.body.title, r.body.content).ok

\* C1: for a key with no live record, the first five checks of one window
\* (times up to the resetTime the first one set) are allowed and report
\* remaining 4, 3, 2, 1, 0 in that order; the sixth is denied with remaining 0.
C1_FirstFiveThenDenied ==
  \A h \in Handlers :
    LET r == req[h] IN
    r.rlChecked =>
      /\ r.nth >= 1
      /\ r.nth <= 5 => r.rl.allowed /\ r.rl.remaining = 5 - r.nth
      /\ r.nth = 6 => ~r.rl.allowed /\ r.rl.remaining = 0

\* The sixth check of a window, made at the very instant of its resetTime, is denied.
C1_Witness ==
  \E h \in Handlers :
    /\ req[h].rlChecked /\ req[h].nth = 6 /\ ~req[h].rl.allowed
    /\ now = req[h].opened + RATE_LIMIT_WINDOW

\* C2: once a key's resetTime has elapsed, its next check is allowed with
\* remaining N-1 and installs a record with count 1 and resetTime now + W,
\* whatever the old count was.
C2_FreshAfterReset ==
  [][\A k \in DOMAIN win :
       (win'[k] # win[k] /\ now > win[k].opened + RATE_LIMIT_WINDOW) =>
         /\ k \in DOMAIN rateLimitMap'
         /\ rateLimitMap'[k] = [count |-> 1, resetTime |-> now + RATE_LIMIT_WINDOW]
         /\ \E h \in Handlers :
              /\ req'[h].rlChecked /\ req'[h].clientId = k /\ req'[h].opened = now
              /\ req'[h].rl.allowed
              /\ req'[h].rl.remaining = RATE_LIMIT_MAX_REQUESTS - 1]_vars

\* A key whose quota was exhausted (and overdrawn) is admitted afresh after its window.
C2_Witness ==
  \E k \in DOMAIN win :
    /\ win[k].prev >= 6 /\ win[k].n = 1
    /\ k \in DOMAIN rateLimitMap /\ rateLimitMap[k].count = 1
    /\ \E h \in Handlers : req[h].rlChecked /\ req[h].clientId = k /\ req[h].nth = 1

\* C3: a request whose credential verified is never answered 429 and never
\* consults the rate limiter: no step of its handler changes the map.
C3_AuthenticatedBypass ==
  [][\A h \in Handlers :
       req'[h].isAuthenticated =>
         /\ req'[h].status # 429
         /\ ~req'[h].rlChecked
         /\ req'[h].headers.remaining = Undefined
         /\ req'[h] # req[h] => rateLimitMap' = rateLimitMap]_vars

\* A signed-in request is answered 200 while its origin's anonymous quota is exhausted.
C3_Witness ==
  \E h \in Handlers :
    LET k == ClientIdOf(req[h]) IN
    /\ req[h].isAuthenticated /\ req[h].status = 200
    /\ k \in DOMAIN rateLimitMap
    /\ rateLimitMap[k].count = RATE_LIMIT_MAX_REQUESTS
    /\ now <= rateLimitMap[k].resetTime

\* The status a request without credential gets from the later steps.
AnonymousStatus(r) ==
  IF r.nth > 5 THEN {429}
  ELSE IF ~sanitizeProposalInput(r.body.title, r.body.content).ok THEN {400}
  ELSE IF r.pc = "eval" THEN {0}
  ELSE IF requestEvaluation(r.answer).ok THEN {200}
  ELSE {500, 502}

\* C4: when verification of a presented credential throws, no authentication
\* error is returned: the request goes on as anonymous, is counted against
\* the record of its network origin like any request without credential, and
\* ends in the status the later steps decide.
C4_FailedAuthIsAnonymous ==
  \A h \in Handlers :
    LET r == req[h] IN
    (r.outcome.settled /\ ~r.outcome.ok) =>
      /\ Truthy(r.authHeader)
      /\ ~r.isAuthenticated
      /\ r.rlChecked /\ r.clientId = ClientIdOf(r) /\ r.nth >= 1
      /\ r.rl.allowed <=> r.nth <= 5
      /\ r.pc \in {"eval", "done"}
      /\ r.status \in AnonymousStatus(r)
      /\ r.status \in {0, 429, 400, 500, 502, 200}
      /\ "authenticatedAs" \notin DOMAIN r.resBody

\* A request with a rejected credential arrives sixth in its origin's window
\* and is turned away like any anonymous one.
C4_Witness ==
  \E h \in Handlers :
    /\ req[h].outcome.settled /\ ~req[h].outcome.ok
    /\ req[h].status = 429 /\ req[h].nth = 6

\* C5: a 429 carries retryAfter <= 900 s computed from the denied record's
\* resetTime, the Retry-After header carries the same value, and 429 is the
\* answer exactly to the sixth and later anonymous requests of a window.
C5_RetryAfter ==
  \A h \in Handlers :
    LET r == req[h] IN
    /\ r.status = 429 <=> (r.rlChecked /\ r.nth >= 6)
    /\ r.status = 429 =>
         /\ r.pc = "done"
         /\ r.resBody.retryAfter <= 900
         /\ r.resBody.retryAfter =
              CeilDiv(r.opened + RATE_LIMIT_WINDOW - r.retryAt, 1000)
         /\ r.headers.retryAfter.t = "string"
         /\ ParseInt(r.headers.retryAfter.v) = r.resBody.retryAfter

\* A 429 issued after the window opened, still telling the caller to wait 900 s.
C5_Witness ==
  \E h \in Handlers :
    /\ req[h].status = 429 /\ req[h].nth = 6
    /\ req[h].resBody.retryAfter = 900
    /\ req[h].retryAt > req[h].opened

\* C6: every response to an unauthenticated POST, whatever its status, carries
\* X-RateLimit-Remaining equal to the remaining value of its rate-limit check
\* and X-RateLimit-Limit equal to 5.
C6_QuotaHeaders ==
  \A h \in Handlers :
    LET r == req[h] IN
    (r.pc = "done" /\ r.method = "POST" /\ ~r.isAuthenticated) =>
      /\ r.rlChecked
      /\ r.status \in {200, 400, 429, 500, 502}
      /\ r.headers.remaining.t = "string"
      /\ ParseInt(r.headers.remaining.v) = r.rl.remaining
      /\ r.rl.remaining = IF r.nth <= 5 THEN 5 - r.nth ELSE 0
      /\ r.headers.limit.t = "string"
      /\ ParseInt(r.headers.limit.v) = 5

\* A denied request still tells its caller that nothing remains.
C6_Witness ==
  \E h \in Handlers :
    /\ req[h].pc = "done" /\ req[h].status = 429
    /\ req[h].headers.remaining = Str(<<"0">>)
    /\ req[h].headers.limit = Str(<<"5">>)

\* C7: the evaluation service is invoked exactly once for each request that
\* passes the method check, the rate limiter and the sanitizer, never for a
\* request ending in 405, 429 or 400, never again after a failure, and again
\* for a (title, content) pair it has already evaluated.
C7_OneInvocation ==
  \A h \in Handlers :
    LET r == req[h] IN
    /\ r.pc \in {"eval", "done"} => r.evalCalls = IF Passed(r) THEN 1 ELSE 0
    /\ r.status \in {405, 429, 400} => r.evalCalls = 0
    /\ r.status \in {200, 500, 502} => r.evalCalls = 1 /\ r.prompt \in dispatched
    /\ r.pc = "eval" => r.evalCalls = 1 /\ r.prompt \in dispatched
    /\ r.pc \in {"idle", "verify"} => r.evalCalls = 0

\* The same pair, submitted again, was sent to the service again, and its
\* failure there was answered without another try.
C7_Witness ==
  \E h \in Handlers :
    /\ req[h].seenBefore /\ req[h].pc = "done" /\ req[h].evalCalls = 1
    /\ req[h].status \in {500, 502}

EvaluationFields ==
  QualityKeys \cup AttentionKeys \cup {"qualityScore", "attentionScore", "overallPass", "summary"}

\* C8: a response body holds an evaluation exactly when its status is 200;
\* every other response is an error object without one, also when the
\* service's document lacks a required criterion.
C8_EvaluationIff200 ==
  \A h \in Handlers :
    LET r == req[h] IN
    r.pc = "done" =>
      /\ r.responses = 1
      /\ "evaluation" \in DOMAIN r.resBody <=> r.status = 200
      /\ r.status = 200 => DOMAIN r.resBody["evaluation"] = EvaluationFields
      /\ r.status # 200 =>
           r.status \in {405, 429, 400, 500, 502} /\ "error" \in DOMAIN r.resBody
      /\ (r.answer.kind = "json" /\ ~(QualityKeys \subseteq DOMAIN r.answer.doc)) =>
           r.status \in {500, 502}

\* The service left out "measurable" and the caller got an error.
C8_Witness ==
  \E h \in Handlers :
    /\ req[h].pc = "done" /\ req[h].answer.kind = "json"
    /\ "measurable" \notin DOMAIN req[h].answer.doc
    /\ req[h].status \in {500, 502}
    /\ "error" \in DOMAIN req[h].resBody

\* C9: a 200 response holds the Evaluation the evaluation step returned, with
\* authenticatedAs the account resolved from the credential when the request
\* was authenticated and with no account at all when it was anonymous.
C9_AuthenticatedAs ==
  \A h \in Handlers :
    LET r == req[h] IN
    (r.pc = "done" /\ r.status = 200) =>
      /\ r.resBody["evaluation"] = requestEvaluation(r.answer).evaluation
      /\ r.outcome.ok =>
           /\ "authenticatedAs" \in DOMAIN r.resBody
           /\ r.resBody["authenticatedAs"] = r.outcome.accountId.v
      /\ ~r.outcome.ok => DOMAIN r.resBody = {"evaluation"}

\* A signed-in caller is told which account it was evaluated as.
C9_Witness ==
  \E h \in Handlers :
    /\ req[h].pc = "done" /\ req[h].status = 200 /\ req[h].outcome.ok
    /\ req[h].resBody["authenticatedAs"] = <<"alice.near">>

\* The quality criteria a document reports as passed.
PassedFlags(doc) == {k \in QualityKeys : doc[k].pass.v}

\* C10: whatever the six pass flags and whatever the service reports for
\* qualityScore and overallPass, the Evaluation delivered has qualityScore =
\* (number of passing criteria)/6 and overallPass true exactly when all six
\* pass.
C10_AggregatesRecomputed ==
  \A h \in Handlers :
    LET r == req[h] IN
    (r.pc = "done" /\ r.status = 200) =>
      LET ev == r.resBody["evaluation"]
          passed == PassedFlags(r.answer.doc)
      IN /\ ev["qualityScore"].num * 6 = Cardinality(passed) * ev["qualityScore"].den
         /\ ev["overallPass"] <=> passed = QualityKeys
         /\ \A k \in QualityKeys : ev[k].pass <=> k \in passed

\* Two criteria fail while the service claims a perfect score: the caller gets 4/6.
C10_Witness ==
  \E h \in Handlers :
    LET r == req[h] IN
    /\ r.pc = "done" /\ r.status = 200
    /\ Cardinality(PassedFlags(r.answer.doc)) = 4
    /\ r.answer.doc["qualityScore"] = Num(Rat(1, 1)) /\ r.answer.doc["overallPass"] = Bool(TRUE)
    /\ RatEq(r.resBody["evaluation"]["qualityScore"], Rat(4, 6))
    /\ ~r.resBody["evaluation"]["overallPass"]

\* The value of an attention score, in quarters: high 1, medium 0.5, low 0.
Quarters(score) ==
  CASE score = "high" -> 4 [] score = "medium" -> 2 [] score = "low" -> 0

\* C11: for every pair of attention scores, the attentionScore delivered is
\* the mean of the two under high = 1, medium = 0.5, low = 0, and so equals
\* the attention points the badge shows (high 2, medium 1, low 0, summed)
\* divided by 4.
C11_AttentionScore ==
  \A h \in Handlers :
    LET r == req[h] IN
    (r.pc = "done" /\ r.status = 200) =>
      LET ev == r.resBody["evaluation"]
          rel == r.answer.doc["relevant"].score.v
          mat == r.answer.doc["material"].score.v
      IN /\ ev["relevant"].score = rel /\ ev["material"].score = mat
         /\ ev["attentionScore"].num * 8 = (Quarters(rel) + Quarters(mat)) * ev["attentionScore"].den
         /\ ev["attentionScore"].num * 4 = attentionPoints(ev) * ev["attentionScore"].den

\* High relevance and medium materiality: 0.75 delivered, 3 of 4 points shown.
C11_Witness ==
  \E h \in Handlers :
    LET r == req[h] IN
    /\ r.pc = "done" /\ r.status = 200
    /\ r.resBody["evaluation"]["relevant"].score = "high"
    /\ r.resBody["evaluation"]["material"].score = "medium"
    /\ RatEq(r.resBody["evaluation"]["attentionScore"], Rat(3, 4))
    /\ attentionPoints(r.resBody["evaluation"]) = 3


\* C12: after a 429 with retryAfter = r, the next request of the same
\* identity, if it arrives once r seconds have passed since that 429 was
\* produced, at that instant or later, is admitted by the rate limiter.
C12_AdmittedOnceElapsed ==
  \A k \in DOMAIN win :
    (win[k].prior429.some
       /\ win[k].at >= win[k].prior429.at + 1000 * win[k].prior429.retryAfter) =>
      win[k].result.allowed

NoHeaders == [remaining |-> Undefined, limit |-> Undefined, retryAfter |-> Undefined]

\* C13: a request whose method is not POST ends with 405 before any other
\* step: no credential is verified, no rate-limit record is created or
\* changed, no rate-limit header is set, and neither the sanitizer nor the
\* evaluation service is invoked.
C13_MethodNotAllowed ==
  [][\A h \in Handlers :
       (req'[h] # req[h] /\ req'[h].method # "POST") =>
         /\ req'[h].pc = "done" /\ req'[h].status = 405 /\ req'[h].responses = 1
         /\ req'[h].verifyCalls = 0 /\ ~req'[h].outcome.settled
         /\ ~req'[h].rlChecked /\ req'[h].headers = NoHeaders
         /\ req'[h].sanitizeCalls = 0 /\ req'[h].evalCalls = 0
         /\ rateLimitMap' = rateLimitMap /\ win' = win
         /\ dispatched' = dispatched]_vars

\* A GET carrying a credential is turned away while its origin has a record.
C13_Witness ==
  \E h \in Handlers :
    /\ req[h].status = 405 /\ req[h].method = "GET" /\ Truthy(req[h].authHeader)
    /\ ClientIdOf(req[h]) \in DOMAIN rateLimitMap

\* C14: when sanitizing (title, content) fails, the request ends with a 400
\* validation response and the evaluation service is not invoked for it; the
\* sanitizer runs only after the identity and rate-limit steps are over.
C14_SanitizeFailure ==
  \A h \in Handlers :
    LET r == req[h] IN
    /\ r.sanitizeCalls <= 1
    /\ r.sanitizeCalls = 1 =>
         /\ r.method = "POST"
         /\ Truthy(r.authHeader) => r.outcome.settled /\ r.verifyCalls = 1
         /\ r.isAuthenticated \/ (r.rlChecked /\ r.rl.allowed)
    /\ (r.sanitizeCalls = 1 /\ ~sanitizeProposalInput(r.body.title, r.body.content).ok) =>
         /\ r.pc = "done" /\ r.status = 400 /\ r.responses = 1
         /\ "error" \in DOMAIN r.resBody /\ r.resBody["error"][1] \in {"title", "content"}
         /\ r.evalCalls = 0 /\ r.prompt = <<>>

\* A blank content, sent with a credential that failed to verify, costs the
\* origin its last admission and is answered 400.
C14_Witness ==
  \E h \in Handlers :
    /\ req[h].status = 400 /\ req[h].outcome.settled /\ ~req[h].outcome.ok
    /\ req[h].rlChecked /\ req[h].nth = 5 /\ req[h].evalCalls = 0

IsFirstEntry(s, e) ==
  \E i \in 0..Len(s) :
    /\ e = SubSeq(s, 1, i)
    /\ \A j \in 1..i : s[j] # ","
    /\ i < Len(s) => s[i + 1] = ","

\* id is e without the blanks at its two ends.
IsTrimmed(e, id) ==
  \E a \in 0..Len(e) : \E b \in a..Len(e) :
    /\ id = SubSeq(e, a + 1, b)
    /\ \A j \in (1..a) \cup ((b + 1)..Len(e)) : e[j] \in {" ", "\t", "\n"}
    /\ id # <<>> => id[1] \notin {" ", "\t", "\n"} /\ id[Len(id)] \notin {" ", "\t", "\n"}

\* C16: the client identifier is the first comma-separated entry of
\* x-forwarded-for, trimmed, when that header is a single string; otherwise
\* x-real-ip when it is a single string; otherwise the socket's remote
\* address; otherwise "unknown".  Nothing else of the request enters it.
C16_ClientIdentifier ==
  \A h \in Handlers :
    LET r == req[h]
        o == r.origin
    IN r.rlChecked =>
         IF o.forwarded.t = "string"
         THEN \E e \in {SubSeq(o.forwarded.v, 1, i) : i \in 0..Len(o.forwarded.v)} :
                IsFirstEntry(o.forwarded.v, e) /\ IsTrimmed(e, r.clientId)
         ELSE IF o.realIp.t = "string" THEN r.clientId = o.realIp.v
         ELSE IF o.remoteAddress.t = "string" THEN r.clientId = o.remoteAddress.v
         ELSE r.clientId = <<"u", "n", "k", "n", "o", "w", "n">>

\* " a ,b" in x-forwarded-for wins over an x-real-ip of "b": the key is "a".
C16_Witness ==
  \E h \in Handlers :
    /\ req[h].rlChecked
    /\ req[h].origin.forwarded = Str(<<" ", "a", " ", ",", "b">>)
    /\ req[h].origin.realIp = Str(<<"b">>)
    /\ req[h].clientId = <<"a">>

\* C17: however two handlers for one anonymous identity interleave at their
\* awaits, no window admits more than N = 5 requests, and no two requests
\* admitted in one window acted on the same count.
C17_NoOverAdmission ==
  /\ \A k \in DOMAIN win : win[k].adm <= RATE_LIMIT_MAX_REQUESTS
  /\ \A g, h \in Handlers :
       (g # h /\ req[g].rlChecked /\ req[h].rlChecked
          /\ req[g].clientId = req[h].clientId /\ req[g].opened = req[h].opened
          /\ req[g].rl.allowed /\ req[h].rl.allowed) =>
         req[g].rl.remaining # req[h].rl.remaining

\* One handler, suspended at the credential check while the other took the
\* window's fifth admission and still awaits its evaluation, is denied.
C17_Witness ==
  /\ req["h1"].pc = "eval" /\ req["h1"].rlChecked /\ req["h1"].nth = 5
  /\ req["h2"].status = 429 /\ req["h2"].nth = 6 /\ req["h2"].outcome.settled
  /\ req["h2"].clientId = req["h1"].clientId /\ req["h2"].opened = req["h1"].opened
  /\ win[req["h1"].clientId].adm = 5

\* C18: for one identity, no time interval of length at most W holds more
\* than 2N = 10 admissions, and more than N are reached by sending N requests
\* just before a window's resetTime and N just after it.
C18_BurstBound ==
  \A k \in DOMAIN admitted :
    \A i, j \in 1..Len(admitted[k]) :
      (i <= j /\ admitted[k][j] - admitted[k][i] <= RATE_LIMIT_WINDOW) =>
        j - i + 1 <= 2 * RATE_LIMIT_MAX_REQUESTS

\* Five requests sent at the end of a window opened earlier (four admitted)
\* and five right after its resetTime: nine admissions within W.
C18_Witness ==
  \E k \in DOMAIN admitted :
    /\ Len(admitted[k]) = 9
    /\ admitted[k][9] - admitted[k][1] <= RATE_LIMIT_WINDOW
    /\ win[k].prev = 6 /\ win[k].n = 5 /\ win[k].adm = 5

\* C19: the sweep is invisible to callers: every check returns the allowed,
\* remaining and resetTime it would return if no sweep ever ran, and a sweep
\* only deletes records, leaving the count and resetTime of those it keeps.
C19_SweepInvisible ==
  [][/\ \A k \in DOMAIN win' : win'[k].result = win'[k].shadowResult
     /\ lastSweep' # lastSweep =>
          \A k \in DOMAIN rateLimitMap' :
            k \in DOMAIN rateLimitMap /\ rateLimitMap'[k] = rateLimitMap[k]]_vars

\* A check made after a sweep deleted the key's expired record: it opens a
\* new window, as it does in the run without the sweep.
C19_Witness ==
  \E k \in DOMAIN win :
    /\ win[k].swept /\ win[k].prev >= 1 /\ lastSweep > 0
    /\ win[k].result = win[k].shadowResult
    /\ win[k].result.allowed /\ win[k].result.remaining = RATE_LIMIT_MAX_REQUESTS - 1

\* C20: right after a sweep the map holds no record with now > resetTime,
\* and a sweep deletes no record with now <= resetTime; with a sweep every
\* 60 s, every record present was created or re-armed at most W + 60 s ago.
C20_SweepBound ==
  [][/\ lastSweep' # lastSweep =>
          /\ \A k \in DOMAIN rateLimitMap' : ~(now' > rateLimitMap'[k].resetTime)
          /\ \A k \in DOMAIN rateLimitMap :
               now <= rateLimitMap[k].resetTime => k \in DOMAIN rateLimitMap'
     /\ \A k \in DOMAIN rateLimitMap' :
          /\ rateLimitMap'[k].resetTime = win'[k].opened + RATE_LIMIT_WINDOW
          /\ now' <= win'[k].opened + RATE_LIMIT_WINDOW + SWEEP_INTERVAL]_vars

\* A record the sweep at its resetTime kept, still present W + 60 s after it
\* was created, at the instant the next sweep is due.
C20_Witness ==
  \E k \in DOMAIN rateLimitMap :
    /\ lastSweep = rateLimitMap[k].resetTime
    /\ now = win[k].opened + RATE_LIMIT_WINDOW + SWEEP_INTERVAL

\* C21: a denied check leaves the rate-limit map as it was: the count is
\* not raised past N and the resetTime is not moved, and the resetTime it
\* reports is the one stored when the window was opened.
C21_DeniedLeavesMap ==
  [][\A k \in DOMAIN win' :
       ((k \notin DOMAIN win \/ win'[k] # win[k]) /\ ~win'[k].result.allowed) =>
         /\ k \in DOMAIN rateLimitMap
         /\ rateLimitMap' = rateLimitMap
         /\ rateLimitMap'[k].count = RATE_LIMIT_MAX_REQUESTS
         /\ win'[k].result.resetTime = Num(rateLimitMap[k].resetTime)
         /\ rateLimitMap[k].resetTime = win'[k].opened + RATE_LIMIT_WINDOW]_vars

\* A second denied check in one window, later than the first: the record
\* still holds N and the resetTime of the window's opening.
C21_Witness ==
  \E k \in DOMAIN win :
    /\ ~win[k].result.allowed /\ win[k].prior429.some
    /\ win[k].at > win[k].prior429.at
    /\ rateLimitMap[k] = [count |-> RATE_LIMIT_MAX_REQUESTS,
                          resetTime |-> win[k].opened + RATE_LIMIT_WINDOW]

\* C22: rate limiting is isolated per identity: a check of k creates or
\* changes only the record of k, and its result is the one k would get if no
\* other identity had ever made a request.
Only(map, k) == [j \in DOMAIN map \cap {k} |-> map[j]]

C22_Isolated ==
  [][\A k \in DOMAIN win' :
       (k \notin DOMAIN win \/ win'[k] # win[k]) =>
         /\ win'[k].result = ResultOf(checkRateLimit(Only(ShadowMap, k), k, now))
         /\ \A j \in (DOMAIN rateLimitMap \cup DOMAIN rateLimitMap') \ {k} :
              /\ j \in DOMAIN rateLimitMap /\ j \in DOMAIN rateLimitMap'
              /\ rateLimitMap'[j] = rateLimitMap[j]]_vars

\* One identity is denied, its quota used up, while the other, checked after
\* that denial in its own open window, is admitted.
C22_Witness ==
  \E k, j \in DOMAIN win :
    /\ k # j
    /\ ~win[k].result.allowed
    /\ j \in DOMAIN rateLimitMap /\ k \in DOMAIN rateLimitMap
    /\ win[j].result.allowed /\ win[j].n >= 2
    /\ req["h1"].clientId = j /\ req["h1"].pc = "done"
    /\ now <= rateLimitMap[k].resetTime

\* C23: every record has 1 <= count <= N and the resetTime of the request
\* that opened its window plus W; a step changes a record it keeps only by
\* one more admitted request, resetTime untouched, or by replacing it with a
\* new window once now > resetTime.
RecordOk(map, seen, k) ==
  /\ 1 <= map[k].count /\ map[k].count <= RATE_LIMIT_MAX_REQUESTS
  /\ k \in DOMAIN seen
  /\ map[k].resetTime = seen[k].opened + RATE_LIMIT_WINDOW

RecordStep(k) ==
  \/ rateLimitMap'[k] = rateLimitMap[k]
  \/ /\ rateLimitMap'[k].resetTime = rateLimitMap[k].resetTime
     /\ rateLimitMap'[k].count = rateLimitMap[k].count + 1
     /\ now <= rateLimitMap[k].resetTime
     /\ win'[k].result.allowed /\ win'[k].adm = win[k].adm + 1
  \/ /\ now > rateLimitMap[k].resetTime
     /\ rateLimitMap'[k] = [count |-> 1, resetTime |-> now + RATE_LIMIT_WINDOW]
     /\ win'[k].opened = now

\* The map is empty at first, so the records of every reachable state are
\* those a step leaves behind.
C23_RecordInvariant ==
  [][/\ \A k \in DOMAIN rateLimitMap' : RecordOk(rateLimitMap', win', k)
     /\ \A k \in DOMAIN rateLimitMap \cap DOMAIN rateLimitMap' : RecordStep(k)]_vars

\* A record filled to N in a window that replaced an expired one.
C23_Witness ==
  \E k \in DOMAIN rateLimitMap :
    /\ rateLimitMap[k].count = RATE_LIMIT_MAX_REQUESTS
    /\ win[k].prev >= 1 /\ win[k].opened > RATE_LIMIT_WINDOW
    /\ rateLimitMap[k].resetTime = win[k].opened + RATE_LIMIT_WINDOW

\* C24: quota is consumed before the input is validated and never given
\* back: every admitted anonymous request is counted whether it ends in 400,
\* 500, 502 or 200, and after N admitted requests of any outcome in a window
\* the next one is answered 429.
InFlight(k) == IF req["h1"].pc = "eval" /\ req["h1"].clientId = k THEN 1 ELSE 0

C24_QuotaNotRefunded ==
  \A k \in DOMAIN win :
    /\ k \in DOMAIN rateLimitMap /\ k \in DOMAIN admitted
    /\ rateLimitMap[k].count = Len(admitted[k]) + InFlight(k)
    /\ (req["h1"].pc = "done" /\ req["h1"].clientId = k) =>
         /\ req["h1"].status = 429 <=> req["h1"].nth > RATE_LIMIT_MAX_REQUESTS
         /\ req["h1"].status = 429 => Len(admitted[k]) = RATE_LIMIT_MAX_REQUESTS
         /\ req["h1"].status # 429 =>
              admitted[k][Len(admitted[k])] = req["h1"].status

\* A 429 after five admitted requests of one window that ended in 400, 500
\* and 502 among them.
C24_Witness ==
  \E k \in DOMAIN admitted :
    /\ req["h1"].pc = "done" /\ req["h1"].status = 429 /\ req["h1"].clientId = k
    /\ Len(admitted[k]) = RATE_LIMIT_MAX_REQUESTS
    /\ {400, 500, 502} \subseteq {admitted[k][i] : i \in 1..Len(admitted[k])}
    /\ rateLimitMap[k].count = RATE_LIMIT_MAX_REQUESTS

C26_RetryAfterPositive ==
  \A h \in Handlers :
    req[h].status = 429 =>
      /\ req[h].resBody.retryAfter >= 1
      /\ req[h].headers.retryAfter = Str(NumToString(req[h].resBody.retryAfter))

\* C27: the client identity used as the rate-limit key is a non-empty
\* string for every combination of x-forwarded-for, x-real-ip and remote
\* address.
C27_KeyNonEmpty ==
  /\ \A h \in Handlers : req[h].rlChecked => Len(req[h].clientId) >= 1
  /\ \A k \in DOMAIN rateLimitMap : Len(k) >= 1

\* C28: in the New Proposal page, after any sequence of evaluateProposal
\* runs (successful, failed, rate limited, or rejected because title or
\* proposal is blank), a displayed result and a non-empty error are never
\* both set, and loading is false once a run has completed.
C28_ResultOrError ==
  /\ ~(Truthy(page.result) /\ page.error # <<>>)
  /\ (page.completed /\ page.pc = "idle") => ~page.loading

====
